---------------------------- MODULE Spec2Model ----------------------------
(***************************************************************************)
(* The frame loop and the deferred-event queue of basic-game-engine.       *)
(*                                                                         *)
(*   game_engine/event.rs       Event { name, frames: u32, task: fn() }    *)
(*   game_engine/eventqueue.rs  impl EventQueue for Vec<Event>             *)
(*   engine/engine.rs           the headless Engine (task, run_all, prune) *)
(*   game_engine/engine.rs      the windowed Engine (input poll first)     *)
(*                                                                         *)
(* engine/engine.rs uses crate::engine::{event, eventqueue}; the queue code *)
(* at hand is game_engine/{event, eventqueue}.rs (taskqueue/ holds a third *)
(* copy, identical but for the type names), and both engines are modelled  *)
(* over it.                                                                *)
(*                                                                         *)
(* Three specifications share the variables:                               *)
(*   Spec       the main loop of an engine, one action per step of a cycle *)
(*   SpecQueue  the three queue operations applied to arbitrary queues     *)
(*   SpecPace   the timing of the cycle: start, work, Engine::end          *)
(***************************************************************************)
EXTENDS Integers, Sequences, FiniteSets, TLC

VARIABLES
  queue,        \* Engine.event_queue : Vec<Event>
  pc,           \* position of the single thread of control
  windowed,     \* TRUE: game_engine::Engine, FALSE: engine::Engine
  overflow_checks, \* build profile: TRUE panics on u32 overflow, FALSE wraps
  cycle,        \* number of the current iteration of main_loop (history);
                \* in SpecQueue the number of operations applied
  steps,        \* steps of the current cycle executed so far (history)
  ops_left,     \* queue mutations the running task may still perform
  task_result,  \* what the task of this cycle returned: "none", "Ok", "Err"
  out,          \* messages run_task printed in this cycle
  abort,        \* why the process panicked: "none", "overflow", "unwrap"
  dec_at_zero,  \* history: Event::dec was called on an event with frames == 0
  zero_enqueued,\* history: some event was enqueued with frames == 0
  before,       \* SpecQueue: the queue before the last operation
  last_op,      \* SpecQueue: the last operation applied
  last_arg,     \* SpecQueue: the name passed to the last remove
  calls,        \* SpecQueue: what the last run_all or prune did, in order
                \* (history)
  polled,       \* the inputs consumed by a poll that met Quit or Escape
  now,          \* SpecPace: SystemTime::now(), in nanoseconds
  start,        \* SpecPace: the start timestamp of the current cycle
  work,         \* SpecPace: time the task, run_all and prune took (history)
  slept         \* SpecPace: the duration given to thread::sleep (history)

clock == <<now, start, work, slept>>

vars == <<queue, pc, windowed, overflow_checks, cycle, steps, ops_left,
          task_result, out, abort, dec_at_zero, zero_enqueued,
          before, last_op, last_arg, calls, polled, clock>>

---------------------------------------------------------------------------
(* Bounds of the model *)

MaxLen == 2        \* longest queue the main loop builds
MaxFrames == 2     \* largest initial frames value the task enqueues
MaxCycles == 3     \* iterations of main_loop explored
MaxTaskOps == 2    \* queue mutations per task invocation
MaxInputs == 2     \* input events returned by one poll_iter
MaxQueueLen == 3   \* SpecQueue: longest queue the operations are applied to
MaxOps == 3        \* SpecQueue: operations applied in a row
MaxPaceCycles == 3 \* SpecPace: iterations of main_loop explored
MaxOverrun == 2    \* SpecPace: longest overrun of the frame budget, in ns

(* Program constants *)

KeyAFrames == 10   \* frames of the event the key-A handler enqueues
FRAME_DURATION == 33333333  \* Duration::from_nanos(33_333_333)
U32Limb == 65536   \* a u32 is kept as two 16-bit limbs, hi * 2^16 + lo

Names == {"a", "b"}
KeyAName == "event"
ErrMsg == "task failed"
Inputs == {"Quit", "Escape", "KeyA", "KeyOther", "KeyNone", "Other"}

---------------------------------------------------------------------------
(* u32 values.  4294967295 is beyond the 32-bit signed integers of TLC, so *)
(* a u32 is held as the pair of its 16-bit halves.                        *)

U32(n) == [hi |-> n \div U32Limb, lo |-> n % U32Limb]

U32Max == [hi |-> U32Limb - 1, lo |-> U32Limb - 1]

IsZero(f) == f.hi = 0 /\ f.lo = 0

U32Less(f, g) == f.hi < g.hi \/ (f.hi = g.hi /\ f.lo < g.lo)

\* f - 1 in wrapping arithmetic (what `-=` does without overflow checks)
WrappingDec(f) ==
  IF f.lo > 0 THEN [f EXCEPT !.lo = @ - 1]
  ELSE IF f.hi > 0 THEN [hi |-> f.hi - 1, lo |-> U32Limb - 1]
  ELSE U32Max

---------------------------------------------------------------------------
(* Event.  init and runs are history fields: the frames value the event was *)
(* constructed with and the number of times its task has been called.       *)

NewEvent(name, n) == [name |-> name, frames |-> U32(n), init |-> n, runs |-> 0]

\* Event::dec: self.frames -= 1.  With overflow checks the subtraction
\* panics at 0; without them it wraps to u32::MAX.
dec(event, checks) ==
  IF IsZero(event.frames) /\ checks
  THEN [event |-> event, panicked |-> TRUE]
  ELSE [event |-> [event EXCEPT !.frames = WrappingDec(@)], panicked |-> FALSE]

---------------------------------------------------------------------------
(* impl EventQueue for Vec<Event> *)

\* Vec::swap_remove(i): the last element takes index i, the vector shrinks
swap_remove(q, i) ==
  IF i = Len(q) THEN SubSeq(q, 1, Len(q) - 1)
  ELSE [SubSeq(q, 1, Len(q) - 1) EXCEPT ![i] = q[Len(q)]]

\* a removal that is off by one: it takes out the element after i, if any
vec_remove_after(q, i) ==
  IF i < Len(q) THEN SubSeq(q, 1, i) \o SubSeq(q, i + 2, Len(q))
  ELSE SubSeq(q, 1, i - 1)

\* Vec::remove(i): the elements after i shift left by one
vec_remove(q, i) == SubSeq(q, 1, i - 1) \o SubSeq(q, i + 1, Len(q))

\* iter().position(|event| event.name == name), 1-based; 0 stands for None
position(q, name) ==
  IF \E i \in 1..Len(q) : q[i].name = name
  THEN CHOOSE i \in 1..Len(q) :
         /\ q[i].name = name
         /\ \A j \in 1..(i - 1) : q[j].name # name
  ELSE 0

\* a remove that takes a missing position for the first index
remove_first_on_miss(q, name) ==
  LET i == position(q, name)
  IN IF Len(q) = 0 THEN q ELSE swap_remove(q, IF i = 0 THEN 1 ELSE i)

\* a remove that closes the gap by shifting, as Vec::remove does
remove_by_shift(q, name) ==
  LET i == position(q, name)
  IN IF i = 0 THEN q ELSE vec_remove(q, i)

\* EventQueue::remove(name)
remove(q, name) ==
  LET i == position(q, name)
  IN IF i = 0 THEN q ELSE swap_remove(q, i)

\* EventQueue::run_all from index i on: call the task, then dec.  A panic in
\* dec stops the iteration; the events before i have been decremented.
\* calls lists what was done, in order: <<"task", i>> for (event.task)() of
\* the event at index i, <<"dec", i>> for a dec that returned, <<"panic", i>>
\* for one that panicked.
RECURSIVE run_from(_, _, _)
run_from(q, i, checks) ==
  IF i > Len(q)
  THEN [queue |-> q, panicked |-> FALSE, dec_at_zero |-> FALSE, calls |-> << >>]
  ELSE LET called == [q[i] EXCEPT !.runs = @ + 1]
           d == dec(called, checks)
           zero == IsZero(q[i].frames)
       IN IF d.panicked
          THEN [queue |-> [q EXCEPT ![i] = d.event], panicked |-> TRUE,
                dec_at_zero |-> TRUE,
                calls |-> << <<"task", i>>, <<"panic", i>> >>]
          ELSE LET rest == run_from([q EXCEPT ![i] = d.event], i + 1, checks)
               IN [rest EXCEPT !.dec_at_zero = @ \/ zero,
                               !.calls = << <<"task", i>>, <<"dec", i>> >> \o @]

run_all(q, checks) == run_from(q, 1, checks)

\* EventQueue::prune: for n in 0..self.len() (the length is read once, before
\* the loop); self.get(n) is None past the current end; an event with
\* frames == 0 is removed with self.remove(n), which for a usize argument is
\* the inherent Vec::remove (shift left), not the trait's remove(String).
\* n is the 1-based index, len the length at the start.
\* a prune that removes with swap_remove, as remove(name) does
RECURSIVE prune_from_swap(_, _, _)
prune_from_swap(q, n, len) ==
  IF n > len THEN q
  ELSE IF n > Len(q) THEN prune_from_swap(q, n + 1, len)
  ELSE IF IsZero(q[n].frames) THEN prune_from_swap(swap_remove(q, n), n + 1, len)
  ELSE prune_from_swap(q, n + 1, len)

RECURSIVE prune_from(_, _, _)
prune_from(q, n, len) ==
  IF n > len THEN q
  ELSE IF n > Len(q) THEN prune_from(q, n + 1, len)
  ELSE IF IsZero(q[n].frames) THEN prune_from(vec_remove(q, n), n + 1, len)
  ELSE prune_from(q, n + 1, len)

\* a prune whose loop starts at the second index
prune_from_second(q) == prune_from(q, 2, Len(q))

prune(q) == prune_from(q, 1, Len(q))

\* The same loop with a record of what it does.  orig[k] is the index that
\* the event now at index k had when prune was called; calls lists, in order,
\* <<"test", j>> for the frames == 0 test of the event that was at index j
\* and <<"remove", j>> for its removal.
RECURSIVE prune_scan(_, _, _, _)
prune_scan(q, orig, n, len) ==
  IF n > len THEN [queue |-> q, calls |-> << >>]
  ELSE IF n > Len(q) THEN prune_scan(q, orig, n + 1, len)
  ELSE IF IsZero(q[n].frames)
       THEN LET rest == prune_scan(vec_remove(q, n), vec_remove(orig, n), n + 1, len)
            IN [rest EXCEPT !.calls = << <<"test", orig[n]>>, <<"remove", orig[n]>> >> \o @]
  ELSE LET rest == prune_scan(q, orig, n + 1, len)
       IN [rest EXCEPT !.calls = << <<"test", orig[n]>> >> \o @]

prune_calls(q) == prune_scan(q, [k \in 1..Len(q) |-> k], 1, Len(q)).calls

---------------------------------------------------------------------------
(* Engine::main_loop, one action per step of the cycle *)

\* The for loop over event_pump.poll_iter() of the windowed engine, from
\* input i on.  end is "done" when the iterator is exhausted, "break" on
\* Quit or Escape, "panic" when keycode.unwrap() meets None; used is the
\* number of inputs taken from the iterator.
RECURSIVE poll_from(_, _, _)
poll_from(q, ins, i) ==
  IF i > Len(ins) THEN [queue |-> q, end |-> "done", used |-> Len(ins)]
  ELSE IF ins[i] \in {"Quit", "Escape"}
       THEN [queue |-> q, end |-> "break", used |-> i]
  ELSE IF ins[i] = "KeyA"
       THEN poll_from(Append(q, NewEvent(KeyAName, KeyAFrames)), ins, i + 1)
  ELSE IF ins[i] = "KeyNone" THEN [queue |-> q, end |-> "panic", used |-> i]
  ELSE poll_from(q, ins, i + 1)

InputSeqs == UNION {[1..n -> Inputs] : n \in 0..MaxInputs}

Init ==
  /\ queue = << >>
  /\ pc = "start"
  /\ windowed \in BOOLEAN
  /\ overflow_checks \in BOOLEAN
  /\ cycle = 0
  /\ steps = << >>
  /\ ops_left = 0
  /\ task_result = "none"
  /\ out = << >>
  /\ abort = "none"
  /\ dec_at_zero = FALSE
  /\ zero_enqueued = FALSE
  /\ before = << >>
  /\ last_op = "none"
  /\ last_arg = ""
  /\ calls = << >>
  /\ polled = << >>
  /\ now = 0
  /\ start = 0
  /\ work = 0
  /\ slept = 0

\* loop { let start = SystemTime::now(); ...
Start ==
  /\ pc = "start"
  /\ cycle < MaxCycles
  /\ pc' = IF windowed THEN "poll" ELSE "task"
  /\ cycle' = cycle + 1
  /\ steps' = << >>
  /\ task_result' = "none"
  /\ out' = << >>
  /\ UNCHANGED <<calls, polled, clock>>
  /\ UNCHANGED <<queue, windowed, overflow_checks, ops_left, abort,
                 dec_at_zero, zero_enqueued, before, last_op, last_arg>>

\* a poll whose break leaves the for loop only, not the loop labelled 'running
PollBreakInner(ins) ==
  /\ pc = "poll"
  /\ LET r == poll_from(queue, ins, 1)
     IN /\ Len(r.queue) <= MaxLen
        /\ queue' = r.queue
        /\ pc' = IF r.end = "panic" THEN "panicked" ELSE "task"
        /\ abort' = IF r.end = "panic" THEN "unwrap" ELSE abort
        /\ polled' = IF r.end = "break" THEN SubSeq(ins, 1, r.used) ELSE polled
  /\ UNCHANGED <<calls, clock>>
  /\ UNCHANGED <<windowed, overflow_checks, cycle, steps, ops_left,
                 task_result, out, dec_at_zero, zero_enqueued,
                 before, last_op, last_arg>>

\* for event in self.game_window.event_pump.poll_iter() { match event ... }
Poll(ins) ==
  /\ pc = "poll"
  /\ LET r == poll_from(queue, ins, 1)
     IN /\ Len(r.queue) <= MaxLen
        /\ queue' = r.queue
        /\ pc' = CASE r.end = "break" -> "exited"
                   [] r.end = "panic" -> "panicked"
                   [] OTHER -> "task"
        /\ abort' = IF r.end = "panic" THEN "unwrap" ELSE abort
        /\ polled' = IF r.end = "break" THEN SubSeq(ins, 1, r.used) ELSE polled
  /\ UNCHANGED <<calls, clock>>
  /\ UNCHANGED <<windowed, overflow_checks, cycle, steps, ops_left,
                 task_result, out, dec_at_zero, zero_enqueued,
                 before, last_op, last_arg>>

\* run_task: (self.task)(self) is entered
TaskCall ==
  /\ pc = "task"
  /\ pc' = "in_task"
  /\ steps' = Append(steps, "task")
  /\ ops_left' = MaxTaskOps
  /\ UNCHANGED <<calls, polled, clock>>
  /\ UNCHANGED <<queue, windowed, overflow_checks, cycle, task_result, out,
                 abort, dec_at_zero, zero_enqueued, before, last_op, last_arg>>

\* the task: engine.event_queue.push(Event { name, frames: n, task })
TaskPush(name, n) ==
  /\ pc = "in_task"
  /\ ops_left > 0
  /\ Len(queue) < MaxLen
  /\ queue' = Append(queue, NewEvent(name, n))
  /\ ops_left' = ops_left - 1
  /\ zero_enqueued' = (zero_enqueued \/ n = 0)
  /\ UNCHANGED <<calls, polled, clock>>
  /\ UNCHANGED <<pc, windowed, overflow_checks, cycle, steps, task_result,
                 out, abort, dec_at_zero, before, last_op, last_arg>>

\* the task: engine.event_queue.remove(name)
TaskRemove(name) ==
  /\ pc = "in_task"
  /\ ops_left > 0
  /\ queue' = remove(queue, name)
  /\ ops_left' = ops_left - 1
  /\ UNCHANGED <<calls, polled, clock>>
  /\ UNCHANGED <<pc, windowed, overflow_checks, cycle, steps, task_result,
                 out, abort, dec_at_zero, zero_enqueued,
                 before, last_op, last_arg>>

\* a run_task that propagated the failure instead of printing it
TaskReturnFatal(result) ==
  /\ pc = "in_task"
  /\ pc' = IF result = "Err" THEN "panicked" ELSE "run_all"
  /\ task_result' = result
  /\ abort' = IF result = "Err" THEN "task" ELSE abort
  /\ ops_left' = 0
  /\ UNCHANGED <<calls, polled, clock>>
  /\ UNCHANGED <<queue, windowed, overflow_checks, cycle, steps, out,
                 dec_at_zero, zero_enqueued, before, last_op, last_arg>>

\* run_task: match (self.task)(self) { Ok(_) => {}, Err(msg) => println!(msg) }
TaskReturn(result) ==
  /\ pc = "in_task"
  /\ pc' = "run_all"
  /\ task_result' = result
  /\ out' = IF result = "Err" THEN Append(out, ErrMsg) ELSE out
  /\ ops_left' = 0
  /\ UNCHANGED <<calls, polled, clock>>
  /\ UNCHANGED <<queue, windowed, overflow_checks, cycle, steps, abort,
                 dec_at_zero, zero_enqueued, before, last_op, last_arg>>

\* self.event_queue.run_all();
RunAll ==
  /\ pc = "run_all"
  /\ LET r == run_all(queue, overflow_checks)
     IN /\ queue' = r.queue
        /\ pc' = IF r.panicked THEN "panicked" ELSE "prune"
        /\ abort' = IF r.panicked THEN "overflow" ELSE abort
        /\ dec_at_zero' = (dec_at_zero \/ r.dec_at_zero)
  /\ steps' = Append(steps, "run_all")
  /\ UNCHANGED <<calls, polled, clock>>
  /\ UNCHANGED <<windowed, overflow_checks, cycle, ops_left, task_result,
                 out, zero_enqueued, before, last_op, last_arg>>

\* a main_loop that goes back to run_all after prune
PruneThenRunAll ==
  /\ pc = "prune"
  /\ queue' = prune(queue)
  /\ pc' = "run_all"
  /\ steps' = Append(steps, "prune")
  /\ UNCHANGED <<calls, polled, clock>>
  /\ UNCHANGED <<windowed, overflow_checks, cycle, ops_left, task_result,
                 out, abort, dec_at_zero, zero_enqueued,
                 before, last_op, last_arg>>

\* self.event_queue.prune();
Prune ==
  /\ pc = "prune"
  /\ queue' = prune(queue)
  /\ pc' = "end"
  /\ steps' = Append(steps, "prune")
  /\ UNCHANGED <<calls, polled, clock>>
  /\ UNCHANGED <<windowed, overflow_checks, cycle, ops_left, task_result,
                 out, abort, dec_at_zero, zero_enqueued,
                 before, last_op, last_arg>>

\* Engine::end(start): sleep to the deadline, then the loop repeats
End ==
  /\ pc = "end"
  /\ pc' = "start"
  /\ steps' = Append(steps, "end")
  /\ UNCHANGED <<calls, polled, clock>>
  /\ UNCHANGED <<queue, windowed, overflow_checks, cycle, ops_left,
                 task_result, out, abort, dec_at_zero, zero_enqueued,
                 before, last_op, last_arg>>

Next ==
  \/ Start
  \/ \E ins \in InputSeqs : Poll(ins)
  \/ TaskCall
  \/ \E name \in Names, n \in 0..MaxFrames : TaskPush(name, n)
  \/ \E name \in Names \cup {KeyAName} : TaskRemove(name)
  \/ \E result \in {"Ok", "Err"} : TaskReturn(result)
  \/ RunAll
  \/ Prune
  \/ End

Spec == Init /\ [][Next]_vars

---------------------------------------------------------------------------
(* SpecQueue: remove, run_all and prune applied, in any order, to any queue *)
(* of at most MaxQueueLen events.                                          *)

RECURSIVE SeqsUpTo(_, _)
SeqsUpTo(S, n) ==
  IF n = 0 THEN {<< >>}
  ELSE LET shorter == SeqsUpTo(S, n - 1)
       IN shorter \cup {Append(q, e) : q \in {r \in shorter : Len(r) = n - 1}, e \in S}

QueueInputs ==
  SeqsUpTo({NewEvent(name, n) : name \in Names, n \in 0..MaxFrames}, MaxQueueLen)

InitQueue ==
  /\ queue \in QueueInputs
  /\ pc = "unit"
  /\ windowed = FALSE
  /\ overflow_checks \in BOOLEAN
  /\ cycle = 0
  /\ steps = << >>
  /\ ops_left = 0
  /\ task_result = "none"
  /\ out = << >>
  /\ abort = "none"
  /\ dec_at_zero = FALSE
  /\ zero_enqueued = FALSE
  /\ before = << >>
  /\ last_op = "none"
  /\ last_arg = ""
  /\ calls = << >>
  /\ polled = << >>
  /\ now = 0
  /\ start = 0
  /\ work = 0
  /\ slept = 0

\* queue.remove(name)
QRemove(name) ==
  /\ pc = "unit"
  /\ cycle < MaxOps
  /\ queue' = remove(queue, name)
  /\ before' = queue
  /\ last_op' = "remove"
  /\ last_arg' = name
  /\ cycle' = cycle + 1
  /\ UNCHANGED <<calls, polled, clock>>
  /\ UNCHANGED <<pc, windowed, overflow_checks, steps, ops_left, task_result,
                 out, abort, dec_at_zero, zero_enqueued>>

\* queue.run_all()
QRunAll ==
  /\ pc = "unit"
  /\ cycle < MaxOps
  /\ LET r == run_all(queue, overflow_checks)
     IN /\ queue' = r.queue
        /\ pc' = IF r.panicked THEN "panicked" ELSE "unit"
        /\ abort' = IF r.panicked THEN "overflow" ELSE abort
        /\ dec_at_zero' = (dec_at_zero \/ r.dec_at_zero)
        /\ calls' = r.calls
  /\ before' = queue
  /\ last_op' = "run_all"
  /\ last_arg' = ""
  /\ cycle' = cycle + 1
  /\ UNCHANGED <<polled, clock>>
  /\ UNCHANGED <<windowed, overflow_checks, steps, ops_left, task_result,
                 out, zero_enqueued>>

\* queue.prune()
QPrune ==
  /\ pc = "unit"
  /\ cycle < MaxOps
  /\ queue' = prune(queue)
  /\ calls' = prune_calls(queue)
  /\ before' = queue
  /\ last_op' = "prune"
  /\ last_arg' = ""
  /\ cycle' = cycle + 1
  /\ UNCHANGED <<polled, clock>>
  /\ UNCHANGED <<pc, windowed, overflow_checks, steps, ops_left, task_result,
                 out, abort, dec_at_zero, zero_enqueued>>

NextQueue ==
  \/ \E name \in Names : QRemove(name)
  \/ QRunAll
  \/ QPrune

SpecQueue == InitQueue /\ [][NextQueue]_vars

---------------------------------------------------------------------------
(* SpecPace: the timing of main_loop.  The clock is in nanoseconds; the    *)
(* task, run_all and prune of a cycle take any duration of WorkDurations.  *)

WorkDurations ==
  {0, 1, FRAME_DURATION - 1} \cup (FRAME_DURATION .. FRAME_DURATION + MaxOverrun)

\* an end() that sleeps to the next point of a fixed grid laid from time 0
end_to_grid(s, t) ==
  LET max_frame_time == cycle * FRAME_DURATION
  IN IF max_frame_time >= t THEN max_frame_time - t ELSE 0

\* Engine::end(start) called at time t: the duration it sleeps for.
\* max_frame_time.duration_since(now) is Ok(max_frame_time - now) when
\* now <= max_frame_time and Err otherwise, where nothing is slept.
end(s, t) ==
  LET max_frame_time == s + FRAME_DURATION
  IN IF max_frame_time >= t THEN max_frame_time - t ELSE 0

InitPace ==
  /\ queue = << >>
  /\ pc = "pace_start"
  /\ windowed = FALSE
  /\ overflow_checks = FALSE
  /\ cycle = 0
  /\ steps = << >>
  /\ ops_left = 0
  /\ task_result = "none"
  /\ out = << >>
  /\ abort = "none"
  /\ dec_at_zero = FALSE
  /\ zero_enqueued = FALSE
  /\ before = << >>
  /\ last_op = "none"
  /\ last_arg = ""
  /\ calls = << >>
  /\ polled = << >>
  /\ now = 0
  /\ start = 0
  /\ work = 0
  /\ slept = 0

\* let start = SystemTime::now();
PaceStart ==
  /\ pc = "pace_start"
  /\ cycle < MaxPaceCycles
  /\ start' = now
  /\ cycle' = cycle + 1
  /\ pc' = "pace_work"
  /\ UNCHANGED <<queue, windowed, overflow_checks, steps, ops_left,
                 task_result, out, abort, dec_at_zero, zero_enqueued,
                 before, last_op, last_arg, calls, polled, now, work, slept>>

\* self.run_task(); self.event_queue.run_all(); self.event_queue.prune();
\* taking d nanoseconds
PaceWork(d) ==
  /\ pc = "pace_work"
  /\ now' = now + d
  /\ work' = d
  /\ pc' = "pace_end"
  /\ UNCHANGED <<queue, windowed, overflow_checks, cycle, steps, ops_left,
                 task_result, out, abort, dec_at_zero, zero_enqueued,
                 before, last_op, last_arg, calls, polled, start, slept>>

\* Engine::end(start);
PaceEnd ==
  /\ pc = "pace_end"
  /\ slept' = end(start, now)
  /\ now' = now + end(start, now)
  /\ pc' = "pace_start"
  /\ UNCHANGED <<queue, windowed, overflow_checks, cycle, steps, ops_left,
                 task_result, out, abort, dec_at_zero, zero_enqueued,
                 before, last_op, last_arg, calls, polled, start, work>>

NextPace ==
  \/ PaceStart
  \/ \E d \in WorkDurations : PaceWork(d)
  \/ PaceEnd

SpecPace == InitPace /\ [][NextPace]_vars

---------------------------------------------------------------------------
(* Properties *)

Expired(q) == {i \in 1..Len(q) : IsZero(q[i].frames)}

NamesOf(q) == {q[i].name : i \in 1..Len(q)}

CycleSteps == <<"task", "run_all", "prune", "end">>

IsPrefix(s, t) == Len(s) <= Len(t) /\ SubSeq(t, 1, Len(s)) = s

\* C1: at the start of every cycle, just before the per-frame task is
\* invoked, every event in the queue has frames > 0.
C1_CycleStartAllLive ==
  pc \in {"poll", "task"} => Expired(queue) = {}

\* C2: whatever the queue holds, after one call to prune() no event with
\* frames == 0 is left in it.
C2_PruneRemovesAllExpired ==
  last_op = "prune" => Expired(queue) = {}

\* C3: as long as every event was enqueued with frames >= 1, Event::dec is
\* never called on an event whose frames is 0.
C3_NoDecAtZero ==
  ~zero_enqueued => ~dec_at_zero

\* C4: an event enqueued with frames N >= 1 has its action called N times in
\* all, and is no longer in the queue once the prune of the cycle of its
\* N-th call has run.
C4_ExactLifetime ==
  \A i \in 1..Len(queue) :
    queue[i].init >= 1 =>
      /\ queue[i].runs <= queue[i].init
      /\ pc \in {"end", "start", "poll", "task", "in_task"}
           => queue[i].runs < queue[i].init

\* C5: after k calls of run_all an event enqueued with frames N >= 1 holds
\* frames = N - k, and k never exceeds N.
C5_FramesIsInitMinusRuns ==
  \A i \in 1..Len(queue) :
    queue[i].init >= 1 =>
      /\ queue[i].runs <= queue[i].init
      /\ queue[i].frames = U32(queue[i].init - queue[i].runs)

\* C6: a prune() that directly follows a prune() leaves the queue as the
\* first one left it.
C6_PruneIdempotent ==
  [][last_op = "prune" /\ last_op' = "prune" => queue' = queue]_vars

\* C7: remove(name) with a name no event of the queue has leaves the queue
\* as it was, and raises no error.
C7_RemoveAbsentIsNoOp ==
  last_op = "remove" /\ last_arg \notin NamesOf(before)
    => queue = before /\ pc = "unit" /\ abort = "none"

C7_Witness ==
  /\ last_op = "remove"
  /\ last_arg \notin NamesOf(before)
  /\ Len(before) = 2
  /\ queue = before

\* C8: the return of the task leads to run_all with the queue as the task
\* left it, whether it returned Ok or Err; an Err message is printed; a
\* cycle whose task returned Err goes through run_all and prune, and the
\* only panic it can end in is the u32 overflow of run_all, which an Ok
\* cycle meets just the same.
C8_TaskFailureNonFatal ==
  /\ [][pc = "in_task" /\ pc' # "in_task"
          => /\ pc' = "run_all"
             /\ queue' = queue
             /\ out' = IF task_result' = "Err" THEN Append(out, ErrMsg) ELSE out]_vars
  /\ [](task_result = "Err"
          => /\ out = <<ErrMsg>>
             /\ pc \in {"run_all", "prune", "end", "start", "panicked"}
             /\ pc = "panicked" => abort = "overflow"
             /\ pc = "start" => steps = CycleSteps)

C8_Witness ==
  /\ task_result = "Err"
  /\ pc = "start"
  /\ steps = CycleSteps
  /\ out = <<ErrMsg>>
  /\ cycle < MaxCycles
  /\ Len(queue) > 0

\* C9: within a cycle the steps run in the order task, run_all, prune, sleep,
\* each at most once, and a completed cycle has run each exactly once.
C9_CycleOrder ==
  /\ IsPrefix(steps, CycleSteps)
  /\ pc = "in_task" => steps = <<"task">>
  /\ pc = "run_all" => steps = <<"task">>
  /\ pc = "prune" => steps = <<"task", "run_all">>
  /\ pc = "end" => steps = <<"task", "run_all", "prune">>
  /\ pc = "start" /\ cycle > 0 => steps = CycleSteps

C9_Witness ==
  /\ pc = "start"
  /\ cycle = 2
  /\ steps = CycleSteps

\* C10: the main loop never stops on account of the queue: whatever the task
\* returns and whatever events (of frames >= 1) are enqueued or removed, no
\* run_all panics, and the headless engine, which has no quit input, neither
\* panics nor leaves the loop.
C10_LoopNeverStops ==
  ~zero_enqueued =>
    /\ abort # "overflow"
    /\ ~windowed => pc \notin {"panicked", "exited"}

\* C11: a cycle whose work took d < FRAME_DURATION sleeps FRAME_DURATION - d
\* and lasts FRAME_DURATION; one whose work took d >= FRAME_DURATION sleeps
\* for no time and lasts d; this holds of every cycle, whatever the cycles
\* before it took.
C11_Pacing ==
  pc = "pace_start" /\ cycle > 0 =>
    IF work < FRAME_DURATION
    THEN slept = FRAME_DURATION - work /\ now - start = FRAME_DURATION
    ELSE slept = 0 /\ now - start = work

C11_Witness ==
  /\ pc = "pace_start"
  /\ cycle = 2
  /\ start > FRAME_DURATION
  /\ work = 1
  /\ slept = FRAME_DURATION - 1
  /\ now = start + FRAME_DURATION

\* C12: no step of the loop raises the frames of an event in the queue: a
\* run_all, the one step that writes frames, leaves each event (all of them
\* enqueued with frames >= 1) with frames no larger than before, and an
\* event at 0 stays at 0.
C12_FramesNeverIncrease ==
  [][~zero_enqueued /\ pc = "run_all"
       => \A i \in 1..Len(queue) :
            /\ ~U32Less(queue[i].frames, queue'[i].frames)
            /\ IsZero(queue[i].frames) => IsZero(queue'[i].frames)]_vars

\* C13: remove(name), when some event has that name, removes the one at the
\* lowest index with that name and no other: the queue is one shorter, the
\* former last element stands at the index of the removed one, and every
\* other element is where and what it was.
C13_RemoveFirstBySwap ==
  last_op = "remove" /\ last_arg \in NamesOf(before) =>
    LET matches == {i \in 1..Len(before) : before[i].name = last_arg}
        first == CHOOSE i \in matches : \A j \in matches : i <= j
    IN /\ Len(queue) = Len(before) - 1
       /\ \A j \in 1..Len(queue) :
            queue[j] = IF j = first THEN before[Len(before)] ELSE before[j]

C13_Witness ==
  /\ last_op = "remove"
  /\ Len(before) = 3
  /\ before[1].name = last_arg
  /\ before[2].name = last_arg
  /\ before[3].name # last_arg
  /\ queue = <<before[3], before[2]>>

\* C14: run_all() and prune() return normally on every queue, whatever its
\* length and whatever the frames of its events, 0 included; on the empty
\* queue they leave it empty.
C14_QueueOpsInfallible ==
  last_op \in {"run_all", "prune"} =>
    /\ pc = "unit"
    /\ abort = "none"
    /\ before = << >> => queue = << >>

\* C15: run_all() returns having called the action of every event once, in
\* ascending index order, each followed at once by the decrement of that
\* event's frames by 1; the length of the queue, the order of the events
\* and their names are as before.
C15_RunAllEffect ==
  last_op = "run_all" =>
    /\ pc = "unit"
    /\ Len(queue) = Len(before)
    /\ Len(calls) = 2 * Len(before)
    /\ \A i \in 1..Len(before) :
         /\ calls[2 * i - 1] = <<"task", i>>
         /\ calls[2 * i] = <<"dec", i>>
         /\ queue[i].name = before[i].name
         /\ queue[i].runs = before[i].runs + 1
         /\ queue[i].frames = WrappingDec(before[i].frames)
         /\ U32Less(queue[i].frames, before[i].frames)

\* the same, for a run_all on a queue that holds no event at frames 0
RunAllEffectOnLive ==
  last_op = "run_all" /\ Expired(before) = {} => C15_RunAllEffect

\* the recorded scan and prune are the same loop: they leave the same queue
ScanIsPrune ==
  prune_scan(queue, [k \in 1..Len(queue) |-> k], 1, Len(queue)).queue = prune(queue)

\* C16: one prune() call tests every event that was in the queue when it
\* was called, the one that takes the index of a removed event included.
C16_PruneTestsEveryEvent ==
  last_op = "prune" =>
    \A j \in 1..Len(before) : \E k \in 1..Len(calls) : calls[k] = <<"test", j>>

\* q without the elements at the indices in R, the others in their order
Without(q, R) ==
  LET F[i \in 0..Len(q)] ==
        IF i = 0 THEN << >>
        ELSE IF i \in R THEN F[i - 1] ELSE Append(F[i - 1], q[i])
  IN F[Len(q)]

Removed(log) == {c[2] : c \in {log[k] : k \in 1..Len(log)} \cap ({"remove"} \X Nat)}

\* C17 as claimed: prune() removes by swap: when the one expired event of a
\* queue is removed, the former last element stands at its index and the
\* elements between keep theirs.
C17_PruneSwapsLastIn ==
  last_op = "prune" /\ Cardinality(Expired(before)) = 1 =>
    queue = swap_remove(before, CHOOSE i \in Expired(before) : TRUE)

\* C17 as amended: prune() removes by shifting: the queue after prune is the
\* queue before it without the events the call removed, all of them expired,
\* and the remaining events are in the order they were in.
C17_PruneShifts ==
  last_op = "prune" =>
    /\ Removed(calls) \subseteq Expired(before)
    /\ queue = Without(before, Removed(calls))

C17_Witness ==
  /\ last_op = "prune"
  /\ Len(before) = 3
  /\ Expired(before) = {1}
  /\ before[2] # before[3]
  /\ queue = <<before[2], before[3]>>

Count(q, e) == Cardinality({i \in 1..Len(q) : q[i] = e})

\* C18: prune() removes no live event and writes no event: every event with
\* frames > 0 is in the queue after prune as many times as before, with the
\* same name and frames, nothing is in the queue that was not there, and the
\* queue is no longer than it was.
C18_PruneKeepsLive ==
  last_op = "prune" =>
    /\ Len(queue) <= Len(before)
    /\ \A i \in 1..Len(before) :
         ~IsZero(before[i].frames) => Count(queue, before[i]) = Count(before, before[i])
    /\ \A i \in 1..Len(queue) : Count(queue, queue[i]) <= Count(before, queue[i])

C18_Witness ==
  /\ last_op = "prune"
  /\ Len(before) = 3
  /\ Expired(before) = {1, 2}
  /\ queue = <<before[2], before[3]>>

NoAdjacentExpired(q) ==
  \A i \in 1..(Len(q) - 1) : ~(IsZero(q[i].frames) /\ IsZero(q[i + 1].frames))

\* C19: on a queue in which no two expired events are at adjacent indices,
\* one prune() removes every expired event; on any queue with an expired
\* event, prune() removes at least the one at the lowest index.
C19_PruneWithoutAdjacentExpired ==
  last_op = "prune" =>
    /\ NoAdjacentExpired(before) => Expired(queue) = {}
    /\ Expired(before) # {} =>
         /\ Len(queue) < Len(before)
         /\ (CHOOSE i \in Expired(before) : \A j \in Expired(before) : i <= j)
              \in Removed(calls)

C19_Witness ==
  /\ last_op = "prune"
  /\ Len(before) = 3
  /\ Expired(before) = {1, 3}
  /\ queue = <<before[2]>>

KeyAEvents(ins) ==
  LET n == Cardinality({i \in 1..Len(ins) : ins[i] = "KeyA"})
  IN [k \in 1..n |-> NewEvent(KeyAName, KeyAFrames)]

\* C20: in the windowed engine a poll that meets Quit or Escape ends the
\* main loop at once: no step of that cycle runs, the queue holds what it
\* held plus one event per key A polled before the quit input and nothing
\* for the inputs after it, and from then on nothing runs and the queue
\* stays as it is.
C20_QuitExitsAtOnce ==
  /\ [](polled # << >>
          => /\ pc = "exited"
             /\ windowed
             /\ steps = << >>
             /\ polled[Len(polled)] \in {"Quit", "Escape"})
  /\ [](pc = "exited" => polled # << >>)
  /\ [][pc = "poll" /\ polled' # << >>
          => queue' = queue \o KeyAEvents(polled')]_vars
  /\ [][pc = "exited" => pc' = "exited" /\ queue' = queue /\ steps' = steps]_vars

C20_Witness ==
  /\ pc = "exited"
  /\ cycle = 2
  /\ polled = <<"KeyA", "Quit">>
  /\ Len(queue) = 2
  /\ queue[1].runs = 1
  /\ ~IsZero(queue[1].frames)
  /\ queue[2] = NewEvent(KeyAName, KeyAFrames)

===========================================================================
